---- MODULE Spec2Model ----
(***************************************************************************)
(* A model of the img-processing node SDK: the API client                  *)
(* (src/src/api-client.ts), the image handle and the API error             *)
(* (src/src/image-object.ts).                                              *)
(*                                                                         *)
(* JavaScript objects are functions from property names to values; a       *)
(* property whose value is undefined is a name outside the DOMAIN (reading *)
(* it, serialising it with JSON.stringify and destructuring it all treat   *)
(* the two alike).  Strings the code inspects (API keys) are sequences of  *)
(* characters.  An image id is the pair <<"image_", n>>.                   *)
(***************************************************************************)
EXTENDS Integers, Sequences, FiniteSets, TLC

VARIABLES
  clients,   \* the IMGProcessingClient objects constructed so far
  heap,      \* the ImageObject handles allocated so far (index = reference)
             \* (in SpecPages: the PaginatedImages objects the caller holds)
  server,    \* the remote service's images (index n holds image <<"image_", n>>)
  last       \* what the most recently finished operation did and returned
             \* (in SpecRequest: the operation in flight and how far it is)

vars == <<clients, heap, server, last>>

\* ------------------------------------------------------------------ bounds

MaxClients == 2
MaxHandles == 2
MaxImages == 2     \* images of the account in SpecRequest and SpecPages
MaxPages == 3      \* PaginatedImages objects the caller holds at a time
MaxCalls == 2      \* calls in flight together in SpecConcurrent

\* ------------------------------------------------------- JavaScript values

Null == <<>>

\* { ...a, ...b }: the properties of b override those of a
Spread(a, b) ==
  [k \in (DOMAIN a) \cup (DOMAIN b) |-> IF k \in DOMAIN b THEN b[k] ELSE a[k]]

\* const { k1, k2, ... } = o, then { k1, k2, ... }: undefined ones stay absent
Pick(o, keys) == [k \in (DOMAIN o) \cap keys |-> o[k]]

\* String.prototype.startsWith
StartsWith(s, p) == Len(s) >= Len(p) /\ SubSeq(s, 1, Len(p)) = p

\* ------------------------------------------------------------ the service

ImageId(n) == <<"image_", n>>
PublicUrl(n) == <<"https://img-processing.com/public/", n>>

Exists(srv, id) == \E n \in 1..Len(srv) : id = ImageId(n)
Num(id) == id[2]

\* A new image of the account.  The estimated size and the creation time are
\* opaque to the client: they are stood for by the area and the serial number.
NewImage(n, name, width, height, format) ==
  [id |-> ImageId(n), name |-> name, url |-> Null, width |-> width,
   height |-> height, format |-> format, size |-> width * height,
   created_at |-> n]

\* The name of a transformation's output: the given one, else the source's.
OutputName(body, source) ==
  IF "name" \in DOMAIN body THEN body.name ELSE source.name

\* The image a transformation endpoint creates from `source`.
Transformed(op, body, source, n) ==
  LET name == OutputName(body, source) IN
  CASE op = "resize" ->
         NewImage(n, name, body.width, body.height, source.format)
    [] op = "crop" ->
         NewImage(n, name, body.x2 - body.x1, body.y2 - body.y1, source.format)
    [] op = "rotate" ->
         IF body.angle = 90
           THEN NewImage(n, name, source.height, source.width, source.format)
           ELSE NewImage(n, name, source.width, source.height, source.format)
    [] op = "convert" ->
         NewImage(n, name, source.width, source.height, body.format)
    [] op = "remove-background" ->
         NewImage(n, name, source.width, source.height, "png")
    [] OTHER ->
         NewImage(n, name, source.width, source.height, source.format)

TransformOps ==
  {"resize", "crop", "rotate", "mirror", "convert", "modulate", "blur",
   "watermark", "remove-background"}

\* The fields a transformation endpoint requires in its JSON body.
Required(op) ==
  CASE op = "resize" -> {"width", "height"}
    [] op = "crop" -> {"x1", "y1", "x2", "y2"}
    [] op = "rotate" -> {"angle"}
    [] op = "mirror" -> {"mode"}
    [] op = "convert" -> {"format"}
    [] op = "watermark" -> {"watermarks"}
    [] op = "visualize" -> {"prompt"}
    [] OTHER -> {}

\* The formats the service supports, and their media types.
Formats == {"jpeg", "png", "webp"}
ImageTypes == {"image/jpeg", "image/png", "image/webp"}

\* Whether the service takes the multipart form of an upload: it has a
\* name, and its image part holds a supported image declared as one.  The
\* bytes of a file are stood for by what they hold: "jpeg", "png" and "webp"
\* are images of that format, "svg" and "pdf" are not images.
AcceptsUpload(form) ==
  /\ {"name", "image"} \subseteq DOMAIN form
  /\ form.name # ""
  /\ form.image.bytes \in Formats
  /\ form.image.type \in ImageTypes

\* The account's images as listings show them: the most recent first.
Descending(srv) == [i \in 1..Len(srv) |-> srv[Len(srv) + 1 - i]]

\* The number of images on a page when the request names none.
DefaultTake == 2

ApiHost == "https://api.img-processing.com/"

\* A number as it stands in a query string, and the number such text means.
NumberToString(n) == <<"digits", n>>
ParseInt(text) == text[2]

\* The link to the page of `take` images that starts at the image `from`:
\* an absolute URL of the service, with its query.  A URL is kept in its
\* parts: host, path, the two query parameters, and in `more` whatever text
\* follows them.
PageLink(take, from) ==
  [host |-> ApiHost, path |-> "v1/images", take |-> NumberToString(take),
   from |-> from]

\* The position in the descending list at which the page of a query starts
\* (0 when the cursor is the id of no image).
PageStart(srv, query) ==
  IF "from" \notin DOMAIN query THEN 1
  ELSE IF Exists(srv, query.from) THEN Len(srv) + 1 - Num(query.from)
  ELSE 0

PageTake(query) ==
  IF "take" \in DOMAIN query THEN ParseInt(query.take) ELSE DefaultTake

\* The page the service answers a listing query with.
Page(srv, query) ==
  LET all == Descending(srv)
      start == PageStart(srv, query)
      take == PageTake(query)
      stop == IF start + take - 1 < Len(all) THEN start + take - 1
              ELSE Len(all)
      back == IF start - take < 1 THEN 1 ELSE start - take IN
  [data |-> SubSeq(all, start, stop),
   links |-> [previous |-> IF start > 1
                             THEN PageLink(take, all[back].id) ELSE Null,
              next |-> IF stop < Len(all)
                         THEN PageLink(take, all[stop + 1].id) ELSE Null]]

\* Whether the service accepts the request as it stands (it may still fail).
Accepts(srv, req) ==
  LET p == req.path IN
  IF req.method = "GET" /\ p.id = Null
    THEN /\ p.op = ""
         /\ PageStart(srv, req.body) > 0
         /\ PageTake(req.body) > 0
  ELSE IF p.op = "upload"
    THEN req.method = "POST" /\ AcceptsUpload(req.body)
  ELSE IF p.id = Null
    THEN /\ req.method = "POST"
         /\ \/ p.op = "" /\ {"url", "name"} \subseteq DOMAIN req.body
            \/ p.op = "imagine" /\ {"prompt", "name"} \subseteq DOMAIN req.body
    ELSE /\ Exists(srv, p.id)
         /\ \/ req.method = "GET" /\ p.op \in {"", "download"}
            \/ req.method = "DELETE" /\ p.op = ""
            \/ req.method = "POST" /\ p.op \in {"publish", "unpublish", "classify"}
            \/ /\ req.method = "POST"
               /\ p.op \in TransformOps \cup {"visualize"}
               /\ Required(p.op) \subseteq DOMAIN req.body

Classification ==
  [main_label |-> "cat", main_score |-> 1, secondary_labels |-> <<>>]

\* The service's state after it served an accepted request.
Served(srv, req) ==
  LET p == req.path
      n == Len(srv) + 1 IN
  IF req.method = "GET" THEN srv
  ELSE IF p.op = "upload"
    THEN Append(srv, NewImage(n, req.body.name, 2, 1, req.body.image.bytes))
  ELSE IF p.id = Null
    THEN Append(srv, NewImage(n, req.body.name, 2, 1, "jpeg"))
  ELSE IF p.op = "publish"
    THEN [srv EXCEPT ![Num(p.id)].url = PublicUrl(Num(p.id))]
  ELSE IF p.op = "unpublish"
    THEN [srv EXCEPT ![Num(p.id)].url = Null]
  ELSE IF p.op \in TransformOps
    THEN Append(srv, Transformed(p.op, req.body, srv[Num(p.id)], n))
  ELSE srv

\* The body of the 2xx response to an accepted request.
Payload(srv, req) ==
  LET p == req.path
      after == Served(srv, req) IN
  IF req.method = "GET" /\ p.id = Null THEN Page(srv, req.body)
  ELSE IF p.id = Null \/ p.op \in TransformOps THEN after[Len(after)]
  ELSE IF p.op \in {"publish", "unpublish", ""} /\ req.method # "DELETE"
    THEN after[Num(p.id)]
  ELSE IF p.op = "classify" THEN Classification
  ELSE IF p.op = "visualize" THEN [result |-> "a cat"]
  ELSE IF p.op = "download" THEN [bytes |-> Num(p.id)]
  ELSE <<>>

\* ------------------------------------------------------------ the transport

\* What one request through ky can come to:
\*   ok_json       a 2xx response whose body decodes as JSON
\*   ok_garbled    a 2xx response whose body does not decode
\*   http_json     a non-2xx response (ky throws HTTPError), JSON object body
\*   http_null     a non-2xx response whose JSON body is null
\*   http_garbled  a non-2xx response whose body does not decode (HTML, empty)
\*   network       no response: fetch failed or ky's timeout fired
ErrorBodies ==
  { [type |-> "https://docs.img-processing.com/errors/validation-error",
     error |-> "Validation Error", status |-> 422,
     message |-> "The request is invalid", errors |-> <<"name", "url">>],
    [type |-> "https://docs.img-processing.com/errors/not-found",
     error |-> "Not Found", status |-> 404],
    [message |-> "Internal Server Error"] }

Failures ==
  [kind : {"http_json"}, body : ErrorBodies]
    \cup [kind : {"ok_garbled", "http_null", "http_garbled", "network"},
          body : {Null}]

\* Every outcome the request `req` can have against the service `srv`.
Outcomes(srv, req) ==
  Failures \cup
    (IF Accepts(srv, req)
       THEN {[kind |-> "ok_json", body |-> Payload(srv, req)]}
       ELSE {})

\* ---------------------------------------------------------------- the client

KeyTest == <<"t", "e", "s", "t", "_", "k">>
KeyLive == <<"l", "i", "v", "e", "_", "k">>
KeyInner == <<"x", "t", "e", "s", "t", "_">>
KeyShort == <<"l", "i", "v", "e">>
ApiKeys == {KeyTest, KeyLive, KeyInner, KeyShort}

UnexpectedError ==
  [class |-> "Error",
   message |-> "An unexpected error occurred. Create an issue: https://github.com/img-processing/node-sdk/issues"]
ConfigurationError ==
  [class |-> "Error",
   message |-> "Invalid API key. Please provide a valid API key. If you don't have one, you can get one at https://dashboard.img-processing.com/"]

Return(v) == [kind |-> "return", value |-> v, logged |-> 0]
Throw(e, n) == [kind |-> "throw", value |-> e, logged |-> n]

\* Mutant: || written for &&, so that every key is refused.
NewClient_either(apiKey) ==
  IF \/ ~StartsWith(apiKey, <<"t", "e", "s", "t", "_">>)
     \/ ~StartsWith(apiKey, <<"l", "i", "v", "e", "_">>)
    THEN Throw(ConfigurationError, 0)
    ELSE Return([prefixUrl |-> "https://api.img-processing.com/",
                 headers |-> [x_api_key |-> apiKey]])

\* new IMGProcessingClient({ apiKey })
NewClient(apiKey) ==
  IF /\ ~StartsWith(apiKey, <<"t", "e", "s", "t", "_">>)
     /\ ~StartsWith(apiKey, <<"l", "i", "v", "e", "_">>)
    THEN Throw(ConfigurationError, 0)
    ELSE Return([prefixUrl |-> "https://api.img-processing.com/",
                 headers |-> [x_api_key |-> apiKey]])

\* Mutant: the constructor forgets this.errors = errors.
NewAPIError_noErrors(body) ==
  [class |-> "IMGProcessingAPIError",
   fields |-> Pick(body, {"type", "error", "status", "message"})]

\* new IMGProcessingAPIError(body)
NewAPIError(body) ==
  [class |-> "IMGProcessingAPIError",
   fields |-> Pick(body, {"type", "error", "status", "message", "errors"})]

\* The catch block shared by request() and download().
Caught(outcome) ==
  CASE outcome.kind = "http_json" -> Throw(NewAPIError(outcome.body), 0)
    [] outcome.kind = "http_null" -> Throw([class |-> "TypeError"], 0)
    [] outcome.kind = "http_garbled" -> Throw([class |-> "SyntaxError"], 0)
    [] OTHER -> Throw(UnexpectedError, 1)

\* IMGProcessingClient.request(call), given what the call came to
Request(outcome) ==
  IF outcome.kind = "ok_json" THEN Return(outcome.body) ELSE Caught(outcome)

\* The earlier revisions of the client, which answer with an envelope.
\*
\* catchResponseError(response): { success: false, error: await
\* response.json() }; the body is not looked at, so null is passed on, and a
\* body that does not decode makes the method throw.
CatchResponseError(outcome) ==
  IF outcome.kind = "http_garbled" THEN Throw([class |-> "SyntaxError"], 0)
  ELSE Return([success |-> FALSE, error |-> outcome.body])

\* request(call) of the revision with createImageFromUrl: the catch block
\* logs what is not an HTTPError and throws the generic error.
Request_envelope(outcome) ==
  CASE outcome.kind = "ok_json" ->
         Return([success |-> TRUE, data |-> outcome.body])
    [] outcome.kind \in {"http_json", "http_null", "http_garbled"} ->
         CatchResponseError(outcome)
    [] OTHER -> Throw(UnexpectedError, 1)

\* uploadImage of the first revision: its own try/catch, without
\* console.error.
UploadImage_first(outcome) ==
  CASE outcome.kind = "ok_json" ->
         Return([success |-> TRUE, data |-> outcome.body])
    [] outcome.kind \in {"http_json", "http_null", "http_garbled"} ->
         CatchResponseError(outcome)
    [] OTHER -> Throw(UnexpectedError, 0)

\* Mutant: this.width and this.height are taken from each other's field.
NewImageObject_swapped(image, client) ==
  [id |-> image.id, name |-> image.name, url |-> image.url,
   width |-> image.height, height |-> image.width, format |-> image.format,
   size |-> image.size, created_at |-> image.created_at, client |-> client]

\* Mutant: the handle is bound to a module-wide default client, not `this`.
NewImageObject_defaultClient(image, client) ==
  [id |-> image.id, name |-> image.name, url |-> image.url,
   width |-> image.width, height |-> image.height, format |-> image.format,
   size |-> image.size, created_at |-> image.created_at, client |-> 1]

\* new ImageObject({ image, client })
NewImageObject(image, client) ==
  [id |-> image.id, name |-> image.name, url |-> image.url,
   width |-> image.width, height |-> image.height, format |-> image.format,
   size |-> image.size, created_at |-> image.created_at, client |-> client]

\* IMGProcessingClient.imageRequest(call), by the client `client`
ImageRequest(outcome, client) ==
  LET response == Request(outcome) IN
  IF response.kind = "return"
    THEN Return(NewImageObject(response.value, client))
    ELSE response

\* IMGProcessingClient.download: the body of a 2xx response is taken as bytes
Download(outcome) ==
  IF outcome.kind \in {"ok_json", "ok_garbled"}
    THEN Return(outcome.body)
    ELSE Caught(outcome)

\* ------------------------------------------- the requests the client issues

Get(id, op) ==
  [method |-> "GET", path |-> [id |-> id, op |-> op], body |-> <<>>]
Post(id, op, json) ==
  [method |-> "POST", path |-> [id |-> id, op |-> op], body |-> json]

Client_download(params) == Get(params.image_id, "download")
Client_getImage(params) == Get(params.image_id, "")
Client_publish(params) == Post(params.image_id, "publish", <<>>)
\* Mutant: unpublish pasted from publish with its path left as it was.
Client_unpublish_pasted(params) == Post(params.image_id, "publish", <<>>)
Client_unpublish(params) == Post(params.image_id, "unpublish", <<>>)
Client_classify(params) == Post(params.image_id, "classify", <<>>)
Client_createImageFromUrl(params) ==
  Post(Null, "", Pick(params, {"url", "name"}))
Client_imagine(params) ==
  Post(Null, "imagine",
       Pick(params, {"prompt", "negative_prompt", "name", "seed"}))
Client_modulate(params) ==
  Post(params.image_id, "modulate",
       Pick(params, {"brightness", "saturation", "hue", "lightness", "name"}))
Client_removeBackground(params) ==
  Post(params.image_id, "remove-background", Pick(params, {"name"}))
Client_watermark(params) ==
  Post(params.image_id, "watermark", Pick(params, {"watermarks", "name"}))
\* Mutant: the target format is written into the request as a constant.
Client_convert_jpeg(params) ==
  Post(params.image_id, "convert",
       Spread(Pick(params, {"quality", "name"}), [format |-> "jpeg"]))
Client_convert(params) ==
  Post(params.image_id, "convert", Pick(params, {"format", "quality", "name"}))

Client_crop(params) ==
  Post(params.image_id, "crop", Pick(params, {"x1", "y1", "x2", "y2", "name"}))
Client_mirror(params) ==
  Post(params.image_id, "mirror", Pick(params, {"mode", "name"}))
Client_resize(params) ==
  Post(params.image_id, "resize",
       Pick(params, {"width", "height", "fit", "name", "position"}))
\* Mutant: the angle is sent twice over.
Client_rotate_doubled(params) ==
  Post(params.image_id, "rotate",
       Spread(Pick(params, {"unit", "name"}), [angle |-> 2 * params.angle]))
Client_rotate(params) ==
  Post(params.image_id, "rotate", Pick(params, {"angle", "unit", "name"}))

\* listImages: GET v1/images with the search parameters take and from.
Client_listImages(params) ==
  [method |-> "GET", path |-> [id |-> Null, op |-> ""],
   body |-> Spread(Pick(params, {"from"}),
                   IF "take" \in DOMAIN params
                     THEN [take |-> NumberToString(params.take)] ELSE <<>>)]

\* The text without its parts `i`.
Without(text, i) == [j \in 1..(Len(text) - 1) |->
                       IF j < i THEN text[j] ELSE text[j + 1]]

\* Mutant: every occurrence of the host is taken out (replaceAll).
WithoutDomain_all(page) ==
  LET head == IF page.host = ApiHost THEN [page EXCEPT !.host = ""]
              ELSE page IN
  IF "more" \in DOMAIN page
    THEN [head EXCEPT !.more = SelectSeq(page.more, LAMBDA t : t # ApiHost)]
    ELSE head

\* page.replace("https://api.img-processing.com/", ""): the first occurrence
\* of the host is taken out, wherever in the URL it stands.
WithoutDomain(page) ==
  IF page.host = ApiHost THEN [page EXCEPT !.host = ""]
  ELSE IF "more" \in DOMAIN page /\ \E i \in DOMAIN page.more :
                                      page.more[i] = ApiHost
    THEN LET i == CHOOSE k \in DOMAIN page.more :
                    /\ page.more[k] = ApiHost
                    /\ \A l \in 1..(k - 1) : page.more[l] # ApiHost IN
         [page EXCEPT !.more = Without(page.more, i)]
  ELSE page

\* goToPage: GET of the link, taken relative to the client's prefixUrl.
Client_goToPage(params) ==
  LET urlWithoutDomain == WithoutDomain(params.page) IN
  [method |-> "GET",
   path |-> [id |-> Null,
             op |-> IF urlWithoutDomain.host = "" THEN ""
                    ELSE urlWithoutDomain.host],
   body |-> Pick(urlWithoutDomain, {"take", "from", "more"})]

\* new PaginatedImages({ data, links, apiClient })
NewPaginatedImages(props) ==
  Spread(Pick(props, {"data", "links"}), [client |-> props.apiClient])

\* request() followed by new PaginatedImages({ ...response, apiClient: this })
PageRequest(outcome, client) ==
  LET response == Request(outcome) IN
  IF response.kind = "return"
    THEN Return(NewPaginatedImages(Spread(response.value,
                                          [apiClient |-> client])))
    ELSE response

\* The files of the caller's file system, by path, and fs.promises.readFile.
Files ==
  ("assets/test_image_1.jpeg" :> "jpeg") @@ ("assets/invalid.svg" :> "svg")

\* Mutant: the file is read inside request()'s try, so that its failure is
\* logged and replaced by the generic error.
ReadFile_caught(path) ==
  IF path \in DOMAIN Files THEN Return(Files[path])
  ELSE Throw(UnexpectedError, 1)

ReadFile(path) ==
  IF path \in DOMAIN Files THEN Return(Files[path])
  ELSE Throw([class |-> "Error", code |-> "ENOENT"], 0)

\* fileTypeFromBuffer: the type the leading bytes show, undefined if none.
FileTypeFromBuffer(bytes) ==
  CASE bytes = "jpeg" -> [ext |-> "jpg", mime |-> "image/jpeg"]
    [] bytes = "png" -> [ext |-> "png", mime |-> "image/png"]
    [] bytes = "webp" -> [ext |-> "webp", mime |-> "image/webp"]
    [] bytes = "pdf" -> [ext |-> "pdf", mime |-> "application/pdf"]
    [] OTHER -> <<>>

\* new Blob([bytes], { type }): an undefined type is the empty string.
NewBlob(bytes, options) ==
  [bytes |-> bytes,
   type |-> IF "type" \in DOMAIN options THEN options.type ELSE ""]

\* new Blob([bytes], { type: (await fileTypeFromBuffer(bytes))?.mime })
Sniffed(bytes) ==
  LET fileType == FileTypeFromBuffer(bytes) IN
  NewBlob(bytes, IF "mime" \in DOMAIN fileType
                   THEN [type |-> fileType.mime] ELSE <<>>)

\* Mutant: content whose type is not recognised is refused on the spot.
ImagePart_strict(image) ==
  LET bytes == IF image.kind = "path" /\ image.path \in DOMAIN Files
                 THEN Files[image.path]
               ELSE IF image.kind = "path" THEN "" ELSE image.bytes IN
  IF image.kind = "path" /\ image.path \notin DOMAIN Files
    THEN ReadFile(image.path)
  ELSE IF image.kind \in {"blob", "file"}
    THEN Return(Pick(image, {"bytes", "type", "filename"}))
  ELSE IF Sniffed(bytes).type = ""
    THEN Throw([class |-> "Error", code |-> "UNSUPPORTED"], 0)
  ELSE Return(Sniffed(bytes))

\* Mutant: blobs and files are wrapped and typed by their bytes as well.
ImagePart_wrapped(image) ==
  IF image.kind = "path"
    THEN LET imageFile == ReadFile(image.path) IN
         IF imageFile.kind = "return"
           THEN Return(Sniffed(imageFile.value)) ELSE imageFile
  ELSE Return(Sniffed(image.bytes))

\* The image part uploadImage appends to the form, or what stops it.
ImagePart(image) ==
  IF image.kind = "path"
    THEN LET imageFile == ReadFile(image.path) IN
         IF imageFile.kind = "return"
           THEN Return(Sniffed(imageFile.value)) ELSE imageFile
  ELSE IF image.kind = "buffer" THEN Return(Sniffed(image.bytes))
  ELSE Return(Pick(image, {"bytes", "type", "filename"}))

\* formData.append("name", name): FormData takes the text of the value.
FormName(params) ==
  IF "name" \in DOMAIN params THEN params.name ELSE "undefined"

\* uploadImage: POST v1/images/upload with the multipart form as body.
Client_uploadImage(params, part) ==
  [method |-> "POST", path |-> [id |-> Null, op |-> "upload"],
   body |-> [name |-> FormName(params), image |-> part]]

\* The three client methods the handle calls that the sources do not hold.
Client_deleteImage(params) ==
  [method |-> "DELETE", path |-> [id |-> params.image_id, op |-> ""],
   body |-> <<>>]
Client_visualize(params) ==
  Post(params.image_id, "visualize", Pick(params, {"prompt", "model"}))
Client_blur(params) ==
  Post(params.image_id, "blur", Pick(params, {"sigma", "name"}))

\* ------------------------------- the parameters a handle gives the client

\* Mutant: the id is that of the account's first image, not the handle's.
This_first(this) == [image_id |-> ImageId(1)]

\* { image_id: this.id }
This(this) == [image_id |-> this.id]

ImageObject_visualize(this, options) ==
  Spread(Pick(options, {"prompt", "model"}), This(this))
ImageObject_blur(this, options) ==
  Spread(Pick(options, {"sigma", "name"}), This(this))
ImageObject_modulate(this, options) ==
  Spread(Pick(options,
              {"brightness", "saturation", "hue", "lightness", "name"}),
         This(this))
ImageObject_removeBackground(this, options) ==
  Spread(Pick(options, {"name"}), This(this))
ImageObject_watermark(this, options) ==
  Spread(Pick(options, {"watermarks", "name"}), This(this))
ImageObject_convert(this, options) ==
  Spread(Pick(options, {"format", "quality", "name"}), This(this))
ImageObject_crop(this, options) ==
  Spread(Pick(options, {"x1", "y1", "x2", "y2", "name"}), This(this))

ImageObject_mirror(this, options) ==
  Spread(Pick(options, {"mode", "name"}), This(this))
\* { image_id: this.id, ...options }
ImageObject_resize(this, options) == Spread(This(this), options)
ImageObject_rotate(this, options) ==
  Spread(Pick(options, {"angle", "unit", "name", "background_color"}),
         This(this))

\* --------------------------------------------------- what the callers pass

\* What a caller may add to a method's own parameters: nothing, or (the type
\* WithoutImageId is erased at run time) an image_id, be it the id of no
\* image or the id of the account's first image.
Extras(srv) == {<<>>} \cup {[image_id |-> ImageId(n)] : n \in 0..1}

BaseOptions(op) ==
  CASE op = "visualize" -> {[prompt |-> "what is it?", model |-> "default"]}
    [] op = "blur" -> {[sigma |-> 1, name |-> "renamed"]}
    [] op = "modulate" -> {[brightness |-> 1]}
    [] op = "removeBackground" -> {<<>>}
    [] op = "watermark" -> {[watermarks |-> <<>>]}
    [] op = "convert" -> [format : Formats]
    [] op = "crop" -> {[x1 |-> 0, y1 |-> 0, x2 |-> 1, y2 |-> 1]}
    [] op = "mirror" -> {[mode |-> "horizontal", name |-> "renamed"]}
    [] op = "resize" ->
         {[width |-> 1, height |-> 2],
          [width |-> 1, height |-> 2, fit |-> "contain",
           letterbox_color |-> "red", name |-> "renamed"]}
    [] op = "rotate" ->
         {[angle |-> 90],
          [angle |-> 180, background_color |-> "red", name |-> "renamed"]}

Options(op, srv) ==
  {Spread(base, extra) : base \in BaseOptions(op), extra \in Extras(srv)}

CreateParams ==
  {[url |-> "https://storage.img-processing.com/og-image.jpg",
    name |-> "test_image"],
   [url |-> "https://storage.img-processing.com/og-image.jpg"]}

ImagineParams == {[prompt |-> "a cat", name |-> "test_image"]}

\* ----------------------------------------------------------------- actions

NoOutcome == [kind |-> "none", body |-> Null]

NoCall == [op |-> "none", image_id |-> Null]

Idle ==
  [op |-> "none", via |-> "none", self |-> 0, client |-> 0, params |-> <<>>,
   requests |-> <<>>, outcome |-> NoOutcome, result |-> Return(Null),
   after |-> NoCall]

Init ==
  /\ clients = <<>>
  /\ heap = <<>>
  /\ server = <<>>
  /\ last = Idle

\* The request as the client `c` puts it on the wire.
Wire(c, req) ==
  [client |-> c, prefixUrl |-> clients[c].prefixUrl,
   headers |-> clients[c].headers, request |-> req]

Record(op, via, self, c, params, req, outcome, result) ==
  [op |-> op, via |-> via, self |-> self, client |-> c, params |-> params,
   requests |-> <<Wire(c, req)>>, outcome |-> outcome, result |-> result,
   after |-> NoCall]

AfterOutcome(req, outcome) ==
  IF outcome.kind = "ok_json" THEN Served(server, req) ELSE server

\* The caller is between two operations.
Ready == last = Idle

\* The caller holds the handle `self` that publish() or unpublish() has just
\* returned to it, and calls the next method on it at once.
InHand(self) ==
  /\ last.via = "handle"
  /\ last.op \in {"publish", "unpublish"}
  /\ last.self = self
  /\ last.result.kind = "return"

\* The call whose result the caller holds as it makes the next one.
Held == IF Ready THEN NoCall
        ELSE [op |-> last.op, image_id |-> last.params.image_id]

\* new IMGProcessingClient({ apiKey })
Construct ==
  /\ Ready
  /\ \E apiKey \in ApiKeys :
       LET made == NewClient(apiKey) IN
       /\ Len(clients) < MaxClients
       /\ \A c \in 1..Len(clients) : clients[c].headers.x_api_key # apiKey
       /\ clients' = IF made.kind = "return"
                       THEN Append(clients, made.value) ELSE clients
       /\ last' = [Idle EXCEPT !.op = "new", !.via = "caller",
                               !.params = [apiKey |-> apiKey],
                               !.result =
                                 IF made.kind = "return"
                                   THEN Return([client |-> Len(clients) + 1])
                                   ELSE made]
       /\ UNCHANGED <<heap, server>>

\* A client method that answers through imageRequest, called by the caller.
ClientImageCall(op, c, params, req) ==
  /\ Len(heap) < MaxHandles
  /\ \E outcome \in Outcomes(server, req) :
       LET made == ImageRequest(outcome, c) IN
       /\ server' = AfterOutcome(req, outcome)
       /\ heap' = IF made.kind = "return"
                    THEN Append(heap, made.value) ELSE heap
       /\ last' = Record(op, "client", 0, c, params, req, outcome,
                         IF made.kind = "return"
                           THEN Return([ref |-> Len(heap) + 1]) ELSE made)
  /\ UNCHANGED clients

\* A client method that answers with the decoded body itself.
ClientPlainCall(op, via, self, c, params, req) ==
  /\ \E outcome \in Outcomes(server, req) :
       /\ server' = AfterOutcome(req, outcome)
       /\ last' = Record(op, via, self, c, params, req, outcome,
                         IF op = "download"
                           THEN Download(outcome) ELSE Request(outcome))
  /\ UNCHANGED <<clients, heap>>

ImageIds == {ImageId(n) : n \in 1..Len(server)}
Client == 1..Len(clients)
\* The image handles and the listings the callers hold.
Handle == {h \in 1..Len(heap) : "id" \in DOMAIN heap[h]}
Listing == {h \in 1..Len(heap) : "links" \in DOMAIN heap[h]}

createImageFromUrl ==
  /\ Ready
  /\ \E c \in Client, params \in CreateParams :
       ClientImageCall("createImageFromUrl", c, params,
                       Client_createImageFromUrl(params))

imagine ==
  /\ Ready
  /\ \E c \in Client, params \in ImagineParams :
       ClientImageCall("imagine", c, params, Client_imagine(params))

getImage ==
  /\ Ready
  /\ \E c \in Client, id \in ImageIds :
       ClientImageCall("getImage", c, [image_id |-> id],
                       Client_getImage([image_id |-> id]))

publish ==
  /\ Ready
  /\ \E c \in Client, id \in ImageIds :
       ClientImageCall("publish", c, [image_id |-> id],
                       Client_publish([image_id |-> id]))

unpublish ==
  /\ Ready
  /\ \E c \in Client, id \in ImageIds :
       ClientImageCall("unpublish", c, [image_id |-> id],
                       Client_unpublish([image_id |-> id]))

download ==
  /\ Ready
  /\ \E c \in Client, id \in ImageIds :
       ClientPlainCall("download", "client", 0, c, [image_id |-> id],
                       Client_download([image_id |-> id]))

classify ==
  /\ Ready
  /\ \E c \in Client, id \in ImageIds :
       ClientPlainCall("classify", "client", 0, c, [image_id |-> id],
                       Client_classify([image_id |-> id]))

\* Mutant: the transformation overwrites the handle it is called on and
\* returns it.
Forward_inPlace(op, self, params, req) ==
  LET c == heap[self].client IN
  /\ Len(heap) < MaxHandles
  /\ \E outcome \in Outcomes(server, req) :
       LET made == ImageRequest(outcome, c) IN
       /\ server' = AfterOutcome(req, outcome)
       /\ heap' = IF made.kind = "return"
                    THEN [heap EXCEPT ![self] = made.value] ELSE heap
       /\ last' = Record(op, "handle", self, c, params, req, outcome,
                         IF made.kind = "return"
                           THEN Return([ref |-> self]) ELSE made)
  /\ UNCHANGED clients

\* A transformation method of the handle `self`: it returns what the client
\* method returns, a new handle.
Forward(op, self, params, req) ==
  LET c == heap[self].client IN
  /\ Len(heap) < MaxHandles
  /\ \E outcome \in Outcomes(server, req) :
       LET made == ImageRequest(outcome, c) IN
       /\ server' = AfterOutcome(req, outcome)
       /\ heap' = IF made.kind = "return"
                    THEN Append(heap, made.value) ELSE heap
       /\ last' = Record(op, "handle", self, c, params, req, outcome,
                         IF made.kind = "return"
                           THEN Return([ref |-> Len(heap) + 1]) ELSE made)
  /\ UNCHANGED clients

\* publish() and unpublish() of the handle `self`:
\*   const result = await this.client.publish({ image_id: this.id });
\*   this.mutableUrl = result.url;  return this;
\* Mutant: the assignment to this.mutableUrl is left out.
SetUrl_stale(this, result) == this
\* Mutant: a url of null in the response is passed over.
SetUrl_keepPublic(this, result) ==
  IF result.url = Null THEN this ELSE [this EXCEPT !.url = result.url]
SetUrl(this, result) == [this EXCEPT !.url = result.url]

\* Mutant: the url is written to every handle of the image, as if handles
\* of one image shared their state.
Toggle_everyHandle(op, self, params, req) ==
  LET c == heap[self].client IN
  /\ \E outcome \in Outcomes(server, req) :
       LET result == ImageRequest(outcome, c) IN
       /\ server' = AfterOutcome(req, outcome)
       /\ heap' = IF result.kind = "return"
                    THEN [h \in DOMAIN heap |->
                            IF h \in Handle /\ heap[h].id = heap[self].id
                              THEN SetUrl(heap[h], result.value)
                              ELSE heap[h]]
                    ELSE heap
       /\ last' = [Record(op, "handle", self, c, params, req, outcome,
                          IF result.kind = "return"
                            THEN Return([ref |-> self]) ELSE result)
                     EXCEPT !.after = Held]
  /\ UNCHANGED clients

\* Mutant: a failed call clears the url before the error goes on.
Toggle_cleared(op, self, params, req) ==
  LET c == heap[self].client IN
  /\ \E outcome \in Outcomes(server, req) :
       LET result == ImageRequest(outcome, c) IN
       /\ server' = AfterOutcome(req, outcome)
       /\ heap' = IF result.kind = "return"
                    THEN [heap EXCEPT ![self] = SetUrl(heap[self], result.value)]
                    ELSE [heap EXCEPT ![self].url = Null]
       /\ last' = [Record(op, "handle", self, c, params, req, outcome,
                          IF result.kind = "return"
                            THEN Return([ref |-> self]) ELSE result)
                     EXCEPT !.after = Held]
  /\ UNCHANGED clients

Toggle(op, self, params, req) ==
  LET c == heap[self].client IN
  /\ \E outcome \in Outcomes(server, req) :
       LET result == ImageRequest(outcome, c) IN
       /\ server' = AfterOutcome(req, outcome)
       /\ heap' = IF result.kind = "return"
                    THEN [heap EXCEPT ![self] = SetUrl(heap[self], result.value)]
                    ELSE heap
       /\ last' = [Record(op, "handle", self, c, params, req, outcome,
                          IF result.kind = "return"
                            THEN Return([ref |-> self]) ELSE result)
                     EXCEPT !.after = Held]
  /\ UNCHANGED clients

ImageObject_delete ==
  /\ Ready
  /\ \E self \in Handle :
       LET c == heap[self].client
           params == This(heap[self])
           req == Client_deleteImage(params) IN
       /\ \E outcome \in Outcomes(server, req) :
            LET done == Request(outcome) IN
            /\ server' = AfterOutcome(req, outcome)
            /\ last' = Record("delete", "handle", self, c, params, req, outcome,
                              IF done.kind = "return" THEN Return(Null) ELSE done)
       /\ UNCHANGED <<clients, heap>>

ImageObject_download ==
  /\ Ready
  /\ \E self \in Handle :
       ClientPlainCall("download", "handle", self, heap[self].client,
                       This(heap[self]), Client_download(This(heap[self])))

ImageObject_publish ==
  \E self \in Handle :
    /\ Ready \/ InHand(self)
    /\ Toggle("publish", self, This(heap[self]),
              Client_publish(This(heap[self])))

ImageObject_unpublish ==
  \E self \in Handle :
    /\ Ready \/ InHand(self)
    /\ Toggle("unpublish", self, This(heap[self]),
              Client_unpublish(This(heap[self])))

ImageObject_classify ==
  /\ Ready
  /\ \E self \in Handle :
       ClientPlainCall("classify", "handle", self, heap[self].client,
                       This(heap[self]), Client_classify(This(heap[self])))

visualize ==
  /\ Ready
  /\ \E self \in Handle : \E options \in Options("visualize", server) :
       LET params == ImageObject_visualize(heap[self], options) IN
       ClientPlainCall("visualize", "handle", self, heap[self].client, params,
                       Client_visualize(params))

blur ==
  /\ Ready
  /\ \E self \in Handle : \E options \in Options("blur", server) :
       LET params == ImageObject_blur(heap[self], options) IN
       Forward("blur", self, params, Client_blur(params))

modulate ==
  /\ Ready
  /\ \E self \in Handle : \E options \in Options("modulate", server) :
       LET params == ImageObject_modulate(heap[self], options) IN
       Forward("modulate", self, params, Client_modulate(params))

removeBackground ==
  /\ Ready
  /\ \E self \in Handle : \E options \in Options("removeBackground", server) :
       LET params == ImageObject_removeBackground(heap[self], options) IN
       Forward("removeBackground", self, params, Client_removeBackground(params))

watermark ==
  /\ Ready
  /\ \E self \in Handle : \E options \in Options("watermark", server) :
       LET params == ImageObject_watermark(heap[self], options) IN
       Forward("watermark", self, params, Client_watermark(params))

convert ==
  /\ Ready
  /\ \E self \in Handle : \E options \in Options("convert", server) :
       LET params == ImageObject_convert(heap[self], options) IN
       Forward("convert", self, params, Client_convert(params))

crop ==
  /\ Ready
  /\ \E self \in Handle : \E options \in Options("crop", server) :
       LET params == ImageObject_crop(heap[self], options) IN
       Forward("crop", self, params, Client_crop(params))

mirror ==
  /\ Ready
  /\ \E self \in Handle : \E options \in Options("mirror", server) :
       LET params == ImageObject_mirror(heap[self], options) IN
       Forward("mirror", self, params, Client_mirror(params))

resize ==
  /\ Ready
  /\ \E self \in Handle : \E options \in Options("resize", server) :
       LET params == ImageObject_resize(heap[self], options) IN
       Forward("resize", self, params, Client_resize(params))

rotate ==
  /\ Ready
  /\ \E self \in Handle : \E options \in Options("rotate", server) :
       LET params == ImageObject_rotate(heap[self], options) IN
       Forward("rotate", self, params, Client_rotate(params))

\* The caller, having awaited an operation and taken what it returned or
\* threw, goes on to its next operation.
Resume ==
  /\ last # Idle
  /\ last' = Idle
  /\ UNCHANGED <<clients, heap, server>>

Next ==
  \/ Construct
  \/ createImageFromUrl
  \/ imagine
  \/ getImage
  \/ publish
  \/ unpublish
  \/ download
  \/ classify
  \/ ImageObject_delete
  \/ ImageObject_download
  \/ ImageObject_publish
  \/ ImageObject_unpublish
  \/ ImageObject_classify
  \/ visualize
  \/ blur
  \/ modulate
  \/ removeBackground
  \/ watermark
  \/ convert
  \/ crop
  \/ mirror
  \/ resize
  \/ rotate
  \/ Resume

Spec == Init /\ [][Next]_vars

\* The methods that make a new image of an existing one.
Transformations ==
  {"resize", "crop", "rotate", "mirror", "convert", "modulate", "blur",
   "watermark", "removeBackground"}

\* ------------------------------------------ one operation, step by step
\*
\* SpecRequest follows a single client operation through request() and
\* download(): the preparation of the body (uploadImage only), the one
\* `await call()`, the decoding of the response, the catch block.

UploadImages ==
  {[kind |-> "path", path |-> "assets/test_image_1.jpeg"],
   [kind |-> "path", path |-> "assets/invalid.svg"],
   [kind |-> "path", path |-> "assets/missing.png"],
   [kind |-> "buffer", bytes |-> "jpeg"],
   [kind |-> "buffer", bytes |-> "pdf"],
   [kind |-> "blob", bytes |-> "jpeg", type |-> "image/jpeg"],
   [kind |-> "blob", bytes |-> "svg", type |-> "image/svg+xml"],
   [kind |-> "file", bytes |-> "jpeg", type |-> "image/jpeg",
    filename |-> "test_image_1.jpeg"]}

UploadParams ==
  {[image |-> image, name |-> "test_image"] : image \in UploadImages}
    \cup {[image |-> image] : image \in UploadImages}

ListParams == {<<>>, [take |-> 1]}

\* The request the client method `op` makes of its parameters.
ClientRequest(op, params) ==
  CASE op = "download" -> Client_download(params)
    [] op = "getImage" -> Client_getImage(params)
    [] op = "listImages" -> Client_listImages(params)
    [] op = "goToPage" -> Client_goToPage(params)
    [] op = "publish" -> Client_publish(params)
    [] op = "unpublish" -> Client_unpublish(params)
    [] op = "classify" -> Client_classify(params)
    [] op = "createImageFromUrl" -> Client_createImageFromUrl(params)
    [] op = "imagine" -> Client_imagine(params)
    [] op = "modulate" -> Client_modulate(params)
    [] op = "removeBackground" -> Client_removeBackground(params)
    [] op = "watermark" -> Client_watermark(params)
    [] op = "convert" -> Client_convert(params)
    [] op = "crop" -> Client_crop(params)
    [] op = "mirror" -> Client_mirror(params)
    [] op = "resize" -> Client_resize(params)
    [] op = "rotate" -> Client_rotate(params)
    [] op = "deleteImage" -> Client_deleteImage(params)
    [] op = "visualize" -> Client_visualize(params)
    [] op = "blur" -> Client_blur(params)

\* The calls a caller can make on a client, given the account's images.
Invocations(srv) ==
  [op : {"createImageFromUrl"}, params : CreateParams]
    \cup [op : {"imagine"}, params : ImagineParams]
    \cup [op : {"uploadImage"}, params : UploadParams]
    \cup [op : {"listImages"}, params : ListParams]
    \cup {[op |-> "goToPage",
           params |-> [page |-> PageLink(1, ImageId(n))]] :
             n \in 1..Len(srv)}
    \cup {[op |-> op, params |-> [image_id |-> ImageId(n)]] :
             op \in {"download", "getImage", "publish", "unpublish",
                     "classify", "deleteImage"},
             n \in 1..Len(srv)}
    \cup UNION {{[op |-> op,
                  params |-> Spread(options, [image_id |-> ImageId(n)])] :
                    options \in BaseOptions(op), n \in 1..Len(srv)} :
                  op \in Transformations \cup {"visualize"}}

Creates(op) ==
  op \in Transformations
          \cup {"createImageFromUrl", "imagine", "uploadImage"}

NoRequest == [method |-> "none", path |-> [id |-> Null, op |-> ""],
              body |-> <<>>]

Resting ==
  [op |-> "none", pc |-> "idle", params |-> <<>>, request |-> NoRequest,
   requests |-> <<>>, outcome |-> NoOutcome, result |-> Return(Null)]

InitRequest ==
  /\ clients = <<NewClient(KeyTest).value>>
  /\ heap = <<>>
  /\ server = <<>>
  /\ last = Resting

\* The caller calls a method of the client.
Invoke ==
  /\ last.pc = "idle"
  /\ \E call \in Invocations(server) :
       /\ Creates(call.op) => Len(server) < MaxImages
       /\ last' = [Resting EXCEPT
                     !.op = call.op,
                     !.params = call.params,
                     !.pc = IF call.op = "uploadImage"
                              THEN "prepare" ELSE "call",
                     !.request = IF call.op = "uploadImage" THEN NoRequest
                                 ELSE ClientRequest(call.op, call.params)]
  /\ UNCHANGED <<clients, heap, server>>

\* uploadImage builds the form: the name, then the image part.
Prepare ==
  /\ last.pc = "prepare"
  /\ LET part == ImagePart(last.params.image) IN
     last' = IF part.kind = "return"
               THEN [last EXCEPT
                       !.pc = "call",
                       !.request = Client_uploadImage(last.params,
                                                      part.value)]
               ELSE [last EXCEPT !.pc = "done", !.result = part]
  /\ UNCHANGED <<clients, heap, server>>

\* const response = await call()
Call ==
  /\ last.pc = "call"
  /\ \E outcome \in Outcomes(server, last.request) :
       /\ server' = AfterOutcome(last.request, outcome)
       /\ last' = [last EXCEPT
                     !.requests = Append(@, Wire(1, last.request)),
                     !.outcome = outcome,
                     !.pc = IF outcome.kind \in {"ok_json", "ok_garbled"}
                              THEN "decode" ELSE "catch"]
  /\ UNCHANGED <<clients, heap>>

\* return await response.json()   (download: return await response.blob())
Decode ==
  /\ last.pc = "decode"
  /\ last' = IF last.op = "download" \/ last.outcome.kind = "ok_json"
               THEN [last EXCEPT !.pc = "done",
                                 !.result = Return(last.outcome.body)]
               ELSE [last EXCEPT !.pc = "catch"]
  /\ UNCHANGED <<clients, heap, server>>

\* Mutant: the catch block makes the call once more before it gives up.
AfterCatch_retry(call) ==
  IF Len(call.requests) < 2 THEN [call EXCEPT !.pc = "call"]
  ELSE [call EXCEPT !.pc = "done", !.result = Caught(call.outcome)]

\* The catch block: it throws, and makes no call.
AfterCatch(call) ==
  [call EXCEPT !.pc = "done", !.result = Caught(call.outcome)]

\* catch (error) { ... }
Catch ==
  /\ last.pc = "catch"
  /\ last' = AfterCatch(last)
  /\ UNCHANGED <<clients, heap, server>>

\* The caller has the result or the exception.
Settle ==
  /\ last.pc = "done"
  /\ last' = Resting
  /\ UNCHANGED <<clients, heap, server>>

NextRequest == Invoke \/ Prepare \/ Call \/ Decode \/ Catch \/ Settle

SpecRequest == InitRequest /\ [][NextRequest]_vars

\* ----------------------------------------------------------- the listings
\*
\* SpecPages: two clients of an account that is empty or holds more images
\* than a default page; the callers list the images and turn the pages.

\* An account of n images made earlier.
Account(n) == [i \in 1..n |-> NewImage(i, "test_image", 2, 1, "jpeg")]

InitPages ==
  /\ clients = <<NewClient(KeyTest).value, NewClient(KeyLive).value>>
  /\ heap = <<>>
  /\ server \in {Account(0), Account(MaxImages + 1)}
  /\ last = Idle

\* `return;` in an async method: the promise resolves to undefined.
ReturnNothing == [kind |-> "return", logged |-> 0]

\* The listing that request() and the constructor make of a response.
PageCall(op, via, self, c, params, req) ==
  /\ Len(heap) < MaxPages
  /\ \E outcome \in Outcomes(server, req) :
       LET made == PageRequest(outcome, c) IN
       /\ server' = AfterOutcome(req, outcome)
       /\ heap' = IF made.kind = "return"
                    THEN Append(heap, made.value) ELSE heap
       /\ last' = Record(op, via, self, c, params, req, outcome,
                         IF made.kind = "return"
                           THEN Return([ref |-> Len(heap) + 1]) ELSE made)
  /\ UNCHANGED clients

\* Mutant: the page that comes back is written over the listing itself.
Turn_inPlace(op, self, params) ==
  LET c == heap[self].client
      req == Client_goToPage(params) IN
  /\ Len(heap) < MaxPages
  /\ \E outcome \in Outcomes(server, req) :
       LET made == PageRequest(outcome, c) IN
       /\ server' = AfterOutcome(req, outcome)
       /\ heap' = IF made.kind = "return"
                    THEN [heap EXCEPT ![self] = made.value] ELSE heap
       /\ last' = Record(op, "listing", self, c, params, req, outcome,
                         IF made.kind = "return"
                           THEN Return([ref |-> self]) ELSE made)
  /\ UNCHANGED clients

\* return this.client.goToPage({ page })
Turn(op, self, params) ==
  PageCall(op, "listing", self, heap[self].client, params,
           Client_goToPage(params))

\* The method returns at once, having called nothing.
NoPage(op, self) ==
  /\ last' = [Record(op, "listing", self, heap[self].client, <<>>,
                     NoRequest, NoOutcome, ReturnNothing)
                EXCEPT !.requests = <<>>]
  /\ UNCHANGED <<clients, heap, server>>

\* Mutant: a listing without a next page goes round to the previous one.
NextPage_round(this) ==
  IF this.links.next # Null THEN [page |-> this.links.next]
  ELSE IF this.links.previous # Null THEN [page |-> this.links.previous]
  ELSE <<>>

\* What next() passes to goToPage; nothing when `!this.links.next` (links are
\* null or non-empty URLs).
NextPage(this) ==
  IF this.links.next = Null THEN <<>> ELSE [page |-> this.links.next]

\* What previous() passes to goToPage; nothing when `!this.links.previous`.
PreviousPage(this) ==
  IF this.links.previous = Null THEN <<>>
  ELSE [page |-> this.links.previous]

listImages ==
  /\ Ready
  /\ \E c \in Client, params \in ListParams :
       PageCall("listImages", "client", 0, c, params,
                Client_listImages(params))

\* The links a caller can hand to goToPage: one as a listing holds it, one
\* of the service in whose query the host stands once more, and one of
\* another host.
PageTokens ==
  {PageLink(1, ImageId(1)),
   [more |-> <<"&back=", ApiHost>>] @@ PageLink(1, ImageId(1)),
   [more |-> <<"&back=", ApiHost>>] @@
     [PageLink(1, ImageId(1)) EXCEPT !.host = "https://example.com/"]}

goToPage ==
  /\ Ready
  /\ \E c \in Client, page \in PageTokens :
       PageCall("goToPage", "client", 0, c, [page |-> page],
                Client_goToPage([page |-> page]))

PaginatedImages_next ==
  /\ Ready
  /\ \E self \in Listing :
       LET params == NextPage(heap[self]) IN
       IF params = <<>> THEN NoPage("next", self)
       ELSE Turn("next", self, params)

PaginatedImages_previous ==
  /\ Ready
  /\ \E self \in Listing :
       LET params == PreviousPage(heap[self]) IN
       IF params = <<>> THEN NoPage("previous", self)
       ELSE Turn("previous", self, params)

\* The caller lets go of the listing it has held longest.
Forget ==
  /\ Ready
  /\ heap # <<>>
  /\ heap' = Tail(heap)
  /\ UNCHANGED <<clients, server, last>>

NextPages ==
  \/ listImages
  \/ goToPage
  \/ PaginatedImages_next
  \/ PaginatedImages_previous
  \/ Forget
  \/ Resume

SpecPages == InitPages /\ [][NextPages]_vars

\* ------------------------------------------------------------ the uploads
\*
\* SpecUpload: one client; the caller uploads images from paths, buffers,
\* blobs and files, with a name and without one, and makes images of URLs.

InitUpload ==
  /\ clients = <<NewClient(KeyTest).value>>
  /\ heap = <<>>
  /\ server = <<>>
  /\ last = Idle

\* The answer of the service to a form it does not take.
ValidationError ==
  [type |-> "https://docs.img-processing.com/errors/validation-error",
   error |-> "Validation Error", status |-> 422,
   message |-> "The request is invalid", errors |-> <<"name", "url">>]

uploadImage ==
  /\ Ready
  /\ \E c \in Client, params \in UploadParams :
       LET part == ImagePart(params.image) IN
       IF part.kind = "return"
         THEN ClientImageCall("uploadImage", c, params,
                              Client_uploadImage(params, part.value))
         ELSE /\ last' = [Record("uploadImage", "client", 0, c, params,
                                 NoRequest, NoOutcome, part)
                            EXCEPT !.requests = <<>>]
              /\ UNCHANGED <<clients, heap, server>>

NextUpload == uploadImage \/ createImageFromUrl \/ Resume

SpecUpload == InitUpload /\ [][NextUpload]_vars

\* ------------------------------------------------ an account with images
\*
\* SpecGallery: one client of an account that holds an image of each
\* format; the caller gets handles of them, makes new images, and
\* transforms what it holds.

Gallery ==
  <<NewImage(1, "first", 2, 1, "jpeg"),
    NewImage(2, "second", 3, 2, "png"),
    NewImage(3, "third", 1, 3, "webp")>>

InitGallery ==
  /\ clients = <<NewClient(KeyTest).value>>
  /\ heap = <<>>
  /\ server = Gallery
  /\ last = Idle

NextGallery ==
  \/ getImage
  \/ createImageFromUrl
  \/ imagine
  \/ blur
  \/ modulate
  \/ removeBackground
  \/ watermark
  \/ convert
  \/ crop
  \/ mirror
  \/ resize
  \/ rotate
  \/ Resume

SpecGallery == InitGallery /\ [][NextGallery]_vars

\* ------------------------------------- handles and listings of an account
\*
\* SpecAccount: one client of an account of images; the caller gets handles
\* and listings, publishes and unpublishes through the client and through
\* the handles, downloads, classifies, crops and deletes, and turns pages.

InitAccount ==
  /\ clients = <<NewClient(KeyTest).value>>
  /\ heap = <<>>
  /\ server = Account(MaxImages + 1)
  /\ last = Idle

NextAccount ==
  \/ getImage
  \/ publish
  \/ unpublish
  \/ listImages
  \/ PaginatedImages_next
  \/ PaginatedImages_previous
  \/ ImageObject_delete
  \/ ImageObject_download
  \/ ImageObject_publish
  \/ ImageObject_unpublish
  \/ ImageObject_classify
  \/ crop
  \/ Resume

SpecAccount == InitAccount /\ [][NextAccount]_vars

\* The parameters the handle method `op` gives the client method.
HandleParams(op, this, options) ==
  CASE op = "blur" -> ImageObject_blur(this, options)
    [] op = "modulate" -> ImageObject_modulate(this, options)
    [] op = "removeBackground" -> ImageObject_removeBackground(this, options)
    [] op = "watermark" -> ImageObject_watermark(this, options)
    [] op = "convert" -> ImageObject_convert(this, options)
    [] op = "crop" -> ImageObject_crop(this, options)
    [] op = "mirror" -> ImageObject_mirror(this, options)
    [] op = "resize" -> ImageObject_resize(this, options)
    [] op = "rotate" -> ImageObject_rotate(this, options)

\* What the client method gave the handle or listing method that called it.
ClientResult(call) ==
  IF call.op = "download" THEN Download(call.outcome)
  ELSE IF call.op \in {"next", "previous", "listImages", "goToPage"}
    THEN PageRequest(call.outcome, call.client)
  ELSE IF call.op \in {"delete", "classify", "visualize"}
    THEN Request(call.outcome)
  ELSE ImageRequest(call.outcome, call.client)

\* ------------------------------------------------------- concurrent calls
\*
\* SpecConcurrent: one client shared by calls that are in flight together.
\* The caller holds a handle of the first image; it starts calls without
\* awaiting them, the service serves them in any order, the responses come
\* back in any order, and each call goes on when its own response is
\* decoded.  `last` is the sequence of the calls started since the caller
\* last awaited them all; what a call made is kept in its result.

\* The calls started together.
Started(srv) ==
  {[op |-> op, via |-> "handle", self |-> self, params |-> This(heap[self])] :
     op \in {"publish", "unpublish"}, self \in Handle}
    \cup {[op |-> "getImage", via |-> "client", self |-> 0,
           params |-> [image_id |-> ImageId(n)]] : n \in 1..Len(srv)}
    \cup {[op |-> "classify", via |-> "client", self |-> 0,
           params |-> [image_id |-> ImageId(1)]],
          [op |-> "listImages", via |-> "client", self |-> 0,
           params |-> <<>>]}

\* The outcomes followed here: success, a structured failure, no response.
Answers(srv, req) ==
  {o \in Outcomes(srv, req) :
     \/ o.kind \in {"ok_json", "network"}
     \/ o.kind = "http_json" /\ "status" \in DOMAIN o.body
                             /\ o.body.status = 404}

InitConcurrent ==
  /\ clients = <<NewClient(KeyTest).value>>
  /\ server = Account(MaxImages)
  /\ heap = <<NewImageObject(server[1], 1)>>
  /\ last = <<>>

\* A method is called and runs up to its `await call()`: the request is out.
Begin ==
  /\ Len(last) < MaxCalls
  /\ \E call \in Started(server) :
       /\ last' = Append(last,
                         [pc |-> "call", turn |-> 0] @@
                           Record(call.op, call.via, call.self, 1,
                                  call.params,
                                  ClientRequest(call.op, call.params),
                                  NoOutcome, Return(Null)))
  /\ UNCHANGED <<clients, heap, server>>

\* The service takes up one of the requests and answers it.
Serve ==
  \E i \in DOMAIN last :
    /\ last[i].pc = "call"
    /\ \E outcome \in Answers(server, last[i].requests[1].request) :
         /\ server' = AfterOutcome(last[i].requests[1].request, outcome)
         /\ last' = [last EXCEPT ![i].outcome = outcome,
                                 ![i].pc = "transit"]
    /\ UNCHANGED <<clients, heap>>

\* `await call()` settles for one of the calls: its response is here, or
\* ky has thrown.
Arrive ==
  \E i \in DOMAIN last :
    /\ last[i].pc = "transit"
    /\ last' = [last EXCEPT ![i].pc = "decode"]
    /\ UNCHANGED <<clients, heap, server>>

\* Mutant: the client keeps the response in a field of its own, and a call
\* reads there the response that came last.
Response_shared(calls, i) ==
  LET here == {j \in DOMAIN calls : calls[j].pc \in {"decode", "done"}}
      j == CHOOSE k \in here : \A l \in here : l <= k IN
  [calls[i] EXCEPT !.outcome = calls[j].outcome]

\* const response = await call(): the response is a local of the call.
Response(calls, i) == calls[i]

\* How many of the calls have finished.
Turns == Cardinality({i \in DOMAIN last : last[i].pc = "done"})

\* The body is decoded and the call runs to its end: request() returns or
\* throws, imageRequest() builds the handle, and publish()/unpublish() of a
\* handle assign this.mutableUrl.
Finish ==
  \E i \in DOMAIN last :
    LET call == last[i]
        result == ClientResult(Response(last, i)) IN
    /\ call.pc = "decode"
    /\ heap' = IF result.kind = "return" /\ call.via = "handle"
                 THEN [heap EXCEPT
                         ![call.self] = SetUrl(heap[call.self], result.value)]
                 ELSE heap
    /\ last' = [last EXCEPT
                  ![i].pc = "done",
                  ![i].turn = Turns + 1,
                  ![i].result =
                    IF result.kind = "return" /\ call.via = "handle"
                      THEN Return([ref |-> call.self]) ELSE result]
    /\ UNCHANGED <<clients, server>>

\* The caller has awaited all the calls it started.
Gather ==
  /\ last # <<>>
  /\ \A i \in DOMAIN last : last[i].pc = "done"
  /\ last' = <<>>
  /\ UNCHANGED <<clients, heap, server>>

NextConcurrent == Begin \/ Serve \/ Arrive \/ Finish \/ Gather

SpecConcurrent == InitConcurrent /\ [][NextConcurrent]_vars

\* ------------------------------------------------------------------ claims

ErrorFields == {"type", "error", "status", "message", "errors"}
RequiredErrorFields == {"type", "error", "status"}
ImmutableFields ==
  {"id", "name", "width", "height", "format", "size", "created_at"}
Finished == last.op \notin {"none", "new"}
Threw == last.result.kind = "throw"
Returned == last.result.kind = "return"

\* C1: when an operation routed through request() meets a non-2xx response
\* whose JSON body has the error shape, it throws an IMGProcessingAPIError
\* whose type, error, status, message and errors are the body's (an absent
\* optional field stays absent, errors keeps its order), and returns nothing.
C1_StructuredFailure ==
  (/\ Finished
   /\ last.op # "download"
   /\ last.outcome.kind = "http_json"
   /\ RequiredErrorFields \subseteq DOMAIN last.outcome.body)
  => /\ Threw
     /\ last.result.value.class = "IMGProcessingAPIError"
     /\ \A k \in ErrorFields :
          IF k \in DOMAIN last.outcome.body
            THEN /\ k \in DOMAIN last.result.value.fields
                 /\ last.result.value.fields[k] = last.outcome.body[k]
            ELSE k \notin DOMAIN last.result.value.fields

\* A 422 with two field errors has reached the caller as the typed error.
C1_Witness ==
  /\ Finished
  /\ last.op # "download"
  /\ last.outcome.kind = "http_json"
  /\ ErrorFields \subseteq DOMAIN last.outcome.body
  /\ Threw
  /\ last.result.value.fields.status = 422
  /\ last.result.value.fields.errors = <<"name", "url">>

\* C2: whatever the transport does, request() and download() either return
\* the payload, or throw an IMGProcessingAPIError, or throw the generic
\* unexpected Error; and every failure that is not a non-2xx response with a
\* decodable JSON body throws the generic unexpected Error.
C2_TotalClassification ==
  Finished =>
    /\ \/ Returned
       \/ last.result.value.class = "IMGProcessingAPIError"
       \/ last.result.value = UnexpectedError
    /\ (Threw /\ last.outcome.kind \notin {"http_json", "http_null"})
         => last.result.value = UnexpectedError

\* C3: every IMGProcessingAPIError that reaches a caller has type, error and
\* status, whatever body came with the non-2xx response.
C3_RequiredFieldsPopulated ==
  (Finished /\ Threw /\ last.result.value.class = "IMGProcessingAPIError")
    => RequiredErrorFields \subseteq DOMAIN last.result.value.fields

\* C4: a key that starts with neither "test_" nor "live_" makes the
\* constructor throw the configuration error, a key with either prefix makes
\* a client that carries it, and neither construction issues a request.
C4_KeyValidatedLocally ==
  last.op = "new" =>
    /\ last.requests = <<>>
    /\ last.params.apiKey \in {KeyInner, KeyShort}
         => last.result = Throw(ConfigurationError, 0)
    /\ last.params.apiKey \in {KeyTest, KeyLive}
         => /\ Returned
            /\ last.result.value.client \in DOMAIN clients
            /\ clients[last.result.value.client].headers.x_api_key
                 = last.params.apiKey

\* A key with "test_" inside it, but not at its start, has been refused.
C4_Witness ==
  /\ last.op = "new"
  /\ last.params.apiKey = KeyInner
  /\ Threw
  /\ last.requests = <<>>

\* C5: a transformation called on a handle returns a handle other than the
\* source, newly allocated and holding the fields of the response payload,
\* and leaves every field of the source handle as it was.
C5_TransformReturnsNewHandle ==
  [][(/\ last'.via = "handle"
      /\ last'.op \in Transformations
      /\ last'.result.kind = "return")
     => LET ref == last'.result.value.ref
            self == last'.self
            image == last'.outcome.body IN
        /\ ref # self
        /\ ref \notin DOMAIN heap
        /\ ref \in DOMAIN heap'
        /\ \A f \in ImmutableFields \cup {"url"} : heap'[ref][f] = image[f]
        /\ heap'[self] = heap[self]]_vars

\* A jpeg handle has been converted: the new handle is webp, the source jpeg.
C5_Witness ==
  /\ last.via = "handle"
  /\ last.op = "convert"
  /\ Returned
  /\ heap[last.result.value.ref].format = "webp"
  /\ heap[last.self].format = "jpeg"
  /\ heap[last.result.value.ref].id # heap[last.self].id

\* C6: a successful publish() or unpublish() of a handle returns that very
\* handle, whose url is then the url of the response.
C6_ToggleReturnsSameHandle ==
  (/\ last.via = "handle"
   /\ last.op \in {"publish", "unpublish"}
   /\ Returned)
  => /\ last.result.value = [ref |-> last.self]
     /\ heap[last.self].url = last.outcome.body.url

\* publish() has returned and the handle shows the public url.
C6_Witness ==
  /\ last.via = "handle"
  /\ last.op = "publish"
  /\ Returned
  /\ heap[last.self].url # Null
  /\ heap[last.self].url = last.outcome.body.url

\* C7: no step changes the id, name, width, height, format, size or
\* created_at of an existing handle, and the url of a handle changes only in
\* a publish() or unpublish() of that handle that got a successful response.
C7_OnlyToggleWritesUrl ==
  [][\A h \in DOMAIN heap :
       /\ h \in DOMAIN heap'
       /\ \A f \in ImmutableFields : heap'[h][f] = heap[h][f]
       /\ heap'[h].url # heap[h].url
            => /\ last'.via = "handle"
               /\ last'.op \in {"publish", "unpublish"}
               /\ last'.self = h
               /\ last'.outcome.kind = "ok_json"
               /\ last'.result.kind = "return"]_vars

\* An unpublish() has failed on a handle that shows a public url, and the
\* url is still there.
C7_Witness ==
  /\ last.via = "handle"
  /\ last.op = "unpublish"
  /\ Threw
  /\ heap[last.self].url # Null

\* C8: when unpublish() follows a completed publish() on the same handle and
\* succeeds, the handle's url is null, and the handle has the id that both
\* calls were made with.
C8_PublishThenUnpublish ==
  (/\ last.via = "handle"
   /\ last.op = "unpublish"
   /\ last.after.op = "publish"
   /\ Returned)
  => /\ heap[last.self].url = Null
     /\ last.after.image_id = last.params.image_id
     /\ heap[last.self].id = last.params.image_id

\* The round trip has been made on a handle.
C8_Witness ==
  /\ last.via = "handle"
  /\ last.op = "unpublish"
  /\ last.after.op = "publish"
  /\ Returned
  /\ heap[last.self].url = Null

\* C9: whatever parameter object a handle method is given, the client call
\* it makes receives the handle's own id as image_id, and that id is the one
\* in the path of the request.
C9_ForwardsOwnId ==
  last.via = "handle" =>
    /\ last.params.image_id = heap[last.self].id
    /\ last.requests[1].request.path.id = heap[last.self].id

\* C10: every handle is bound to a constructed client; a handle method
\* issues its request through the client the handle is bound to; and a
\* handle an operation returns is bound to the client that issued the
\* operation's request.
C10_BoundToPerformingClient ==
  /\ \A h \in DOMAIN heap : heap[h].client \in DOMAIN clients
  /\ last.via = "handle" =>
       last.requests[1].client = heap[last.self].client
  /\ (/\ Finished
      /\ Returned
      /\ "ref" \in DOMAIN last.result.value)
     => heap[last.result.value.ref].client = last.requests[1].client

\* A handle of the second client has been transformed, and the handle that
\* came back is bound to the second client too.
C10_Witness ==
  /\ Len(clients) = 2
  /\ last.via = "handle"
  /\ last.op \in Transformations
  /\ Returned
  /\ heap[last.self].client = 2
  /\ heap[last.result.value.ref].client = 2

\* C11 as stated: every operation that has finished has called the
\* transport exactly once, whatever its outcome.
C11_ExactlyOneRequest ==
  last.pc = "done" => Len(last.requests) = 1

\* C11, amended: no operation calls the transport a second time; an
\* operation that has a response or a failure of the transport in hand has
\* called it exactly once, and so has every finished operation but one:
\* uploadImage with a path that cannot be read, which throws the file
\* system's error and has called nothing.
C11_AtMostOneRequest ==
  /\ Len(last.requests) <= 1
  /\ last.pc \in {"decode", "catch"} => Len(last.requests) = 1
  /\ last.pc = "done" =>
       \/ Len(last.requests) = 1
       \/ /\ last.op = "uploadImage"
          /\ last.params.image.kind = "path"
          /\ last.params.image.path \notin DOMAIN Files
          /\ last.requests = <<>>
          /\ last.result.kind = "throw"
          /\ last.result.value.code = "ENOENT"

\* A GET has failed without a response, the catch block has run, and the
\* operation has ended with the one call it began with.
C11_Witness ==
  /\ last.pc = "done"
  /\ last.op = "getImage"
  /\ last.outcome.kind = "network"
  /\ last.result = Throw(UnexpectedError, 1)
  /\ Len(last.requests) = 1

Turning == last.via = "listing" /\ last.op \in {"next", "previous"}

\* C12: next() on a listing whose next link is null, and previous() on a
\* listing whose previous link is null, resolve to undefined, throw nothing
\* and issue no request.
C12_NoLinkNoRequest ==
  (Turning /\ heap[last.self].links[last.op] = Null)
    => /\ last.result = ReturnNothing
       /\ last.requests = <<>>

\* next() has been called on a last page (it has a previous page, no next
\* one) and has resolved to undefined without a request.
C12_Witness ==
  /\ Turning
  /\ last.op = "next"
  /\ heap[last.self].links.next = Null
  /\ heap[last.self].links.previous # Null
  /\ last.result = ReturnNothing
  /\ last.requests = <<>>

\* C13: next() or previous() on a listing that has the link calls goToPage of
\* the listing's client with exactly that link, which issues one GET of the
\* link's query; when it succeeds the result is a newly allocated listing,
\* other than the original, holding the page of the response; and whether it
\* succeeds or fails, every listing that existed is left as it was.
C13_TurnReturnsNewListing ==
  [][(/\ last'.via = "listing"
      /\ last'.op \in {"next", "previous"}
      /\ heap[last'.self].links[last'.op] # Null)
     => LET self == last'.self
            link == heap[self].links[last'.op] IN
        /\ last'.params = [page |-> link]
        /\ Len(last'.requests) = 1
        /\ last'.requests[1].client = heap[self].client
        /\ last'.requests[1].request.method = "GET"
        /\ last'.requests[1].request.path = [id |-> Null, op |-> ""]
        /\ last'.requests[1].request.body
             = [take |-> link.take, from |-> link.from]
        /\ \A h \in DOMAIN heap : h \in DOMAIN heap' /\ heap'[h] = heap[h]
        /\ last'.result.kind = "return"
             => LET ref == last'.result.value.ref IN
                /\ ref # self
                /\ ref \notin DOMAIN heap
                /\ ref \in DOMAIN heap'
                /\ heap'[ref].data = last'.outcome.body.data
                /\ heap'[ref].links = last'.outcome.body.links
                /\ heap'[ref].client = heap[self].client]_vars

\* previous() on a later page has returned another listing, the first page,
\* while the caller holds a third listing as well.
C13_Witness ==
  /\ Turning
  /\ last.op = "previous"
  /\ Returned
  /\ Len(heap) = 3
  /\ last.result.value.ref # last.self
  /\ heap[last.result.value.ref].links.previous = Null
  /\ heap[last.result.value.ref].links.next # Null
  /\ heap[last.self].links.previous # Null

\* C14: every element of the data of a listing is an image handle bound to
\* the client that made the listing.
C14_DataAreHandles ==
  \A h \in DOMAIN heap :
    \A i \in DOMAIN heap[h].data :
      /\ "client" \in DOMAIN heap[h].data[i]
      /\ heap[h].data[i].client = heap[h].client

Uploaded == last.op = "uploadImage"

\* C15: uploadImage without a name, once the service has answered, has
\* thrown an IMGProcessingAPIError: it has not returned a handle.
C15_MissingNameRefused ==
  (/\ Uploaded
   /\ "name" \notin DOMAIN last.params
   /\ last.outcome.kind \in {"ok_json", "http_json"})
  => /\ Threw
     /\ last.result.value.class = "IMGProcessingAPIError"

\* C16: uploadImage of a readable path or a buffer whose bytes are not a
\* supported image issues one upload request, whose image part is declared
\* as no supported image type, and does not return a handle; when the
\* service answers with its validation error, the call throws an
\* IMGProcessingAPIError of status 422 whose errors is a list.
C16_UnrecognisedContentRefused ==
  (/\ Uploaded
   /\ \/ /\ last.params.image.kind = "path"
         /\ last.params.image.path \in DOMAIN Files
         /\ Files[last.params.image.path] \notin Formats
      \/ /\ last.params.image.kind = "buffer"
         /\ last.params.image.bytes \notin Formats)
  => /\ Len(last.requests) = 1
     /\ last.requests[1].request.method = "POST"
     /\ last.requests[1].request.path = [id |-> Null, op |-> "upload"]
     /\ last.requests[1].request.body.image.type \notin ImageTypes
     /\ Threw
     /\ last.outcome = [kind |-> "http_json", body |-> ValidationError]
          => /\ last.result.value.class = "IMGProcessingAPIError"
             /\ last.result.value.fields.status = 422
             /\ last.result.value.fields.type = ValidationError.type
             /\ last.result.value.fields.errors \in Seq({"name", "url"})

\* The SVG file has been sent, with no type, and refused with the 422.
C16_Witness ==
  /\ Uploaded
  /\ last.params.image = [kind |-> "path", path |-> "assets/invalid.svg"]
  /\ Len(last.requests) = 1
  /\ last.requests[1].request.body.image = [bytes |-> "svg", type |-> ""]
  /\ last.outcome = [kind |-> "http_json", body |-> ValidationError]
  /\ Threw
  /\ last.result.value.fields.status = 422

\* The media type that the leading bytes of a file show ("" when none).
TypeShown(bytes) ==
  CASE bytes = "jpeg" -> "image/jpeg"
    [] bytes = "png" -> "image/png"
    [] bytes = "webp" -> "image/webp"
    [] bytes = "pdf" -> "application/pdf"
    [] OTHER -> ""

\* C17: the image part of an upload request is declared, for a path, as the
\* type the bytes of the file show; for a buffer, as the type its bytes
\* show; for a Blob or a File, as the type the object declares; and the
\* bytes are the caller's.  An upload of image bytes declared as what they
\* are, with a name, is one the service takes, and when it succeeds the
\* handle has the given name.
C17_DeclaredMediaType ==
  (Uploaded /\ last.requests # <<>>)
  => LET image == last.params.image
         part == last.requests[1].request.body.image IN
     /\ image.kind = "path"
          => /\ part.bytes = Files[image.path]
             /\ part.type = TypeShown(Files[image.path])
     /\ image.kind = "buffer"
          => /\ part.bytes = image.bytes
             /\ part.type = TypeShown(image.bytes)
     /\ image.kind \in {"blob", "file"}
          => /\ part.bytes = image.bytes
             /\ part.type = image.type
     /\ (/\ part.bytes \in Formats
         /\ part.type = TypeShown(part.bytes)
         /\ "name" \in DOMAIN last.params)
        => /\ Accepts(server, last.requests[1].request)
           /\ Returned => heap[last.result.value.ref].name = last.params.name

\* A Blob that declares a type its bytes do not show has been sent as it
\* declares itself.
C17_Witness ==
  /\ Uploaded
  /\ last.params.image.kind = "blob"
  /\ last.params.image.bytes = "svg"
  /\ Len(last.requests) = 1
  /\ last.requests[1].request.body.image.type = "image/svg+xml"

Transforming == last.via = "handle" /\ last.op \in Transformations

\* C18: the id of every handle an operation returns begins with "image_";
\* a transformation method given options without a name gives the client
\* parameters without a name and the request has none in its body; and
\* when such a transformation succeeds, the new handle has the name of the
\* source handle.  The last part fails for resize(): options that hold an
\* image_id make it transform that image, and the new handle has that
\* image's name.
C18_IdAndDefaultName ==
  /\ (Finished /\ Returned /\ "ref" \in DOMAIN last.result.value)
       => /\ Len(heap[last.result.value.ref].id) = 2
          /\ heap[last.result.value.ref].id[1] = "image_"
  /\ \A h \in DOMAIN heap : \A op \in Transformations :
       \A options \in Options(op, server) :
         "name" \notin DOMAIN options
           => LET params == HandleParams(op, heap[h], options) IN
              /\ "name" \notin DOMAIN params
              /\ "name" \notin DOMAIN ClientRequest(op, params).body
  /\ (Transforming /\ "name" \notin DOMAIN last.params)
     => /\ "name" \notin DOMAIN last.requests[1].request.body
        /\ Returned
             => heap[last.result.value.ref].name = heap[last.self].name

\* C19: a successful convert() returns a handle whose format is the format
\* asked for, whatever the format of the source, and a successful
\* removeBackground() returns a handle whose format is png.
C19_FormatAsDeclared ==
  /\ (Transforming /\ last.op = "convert" /\ Returned)
       => /\ heap[last.result.value.ref].format = last.params.format
          /\ last.requests[1].request.body.format = last.params.format
  /\ (Transforming /\ last.op = "removeBackground" /\ Returned)
       => heap[last.result.value.ref].format = "png"

\* A webp image has been converted to png.
C19_Witness ==
  /\ Transforming
  /\ last.op = "convert"
  /\ Returned
  /\ last.params.format = "png"
  /\ heap[last.self].format = "webp"
  /\ heap[last.result.value.ref].format = "png"

\* C20: a successful rotate() by 90, in degrees, returns a handle whose
\* width is the height of the source handle and whose height is its width,
\* and leaves the width and the height of the source handle as they were.
C20_QuarterTurnSwaps ==
  [][(/\ last'.via = "handle"
      /\ last'.op = "rotate"
      /\ last'.params.angle = 90
      /\ "unit" \in DOMAIN last'.params => last'.params.unit = "degrees"
      /\ last'.result.kind = "return")
     => LET self == last'.self
            ref == last'.result.value.ref IN
        /\ heap'[ref].width = heap[self].height
        /\ heap'[ref].height = heap[self].width
        /\ heap'[self].width = heap[self].width
        /\ heap'[self].height = heap[self].height]_vars

\* The 3 by 2 image has been turned by 90 and the result is 2 by 3.
C20_Witness ==
  /\ Transforming
  /\ last.op = "rotate"
  /\ last.params.angle = 90
  /\ Returned
  /\ heap[last.self].width = 3
  /\ heap[last.self].height = 2
  /\ heap[last.result.value.ref].width = 2
  /\ heap[last.result.value.ref].height = 3

\* C21: when the client call of a handle method or of next()/previous()
\* fails, the caller gets the very error the client raised, after one
\* request, and no handle or listing has changed; so a failed publish() or
\* unpublish() leaves the url as it was.
C21_FailurePropagates ==
  [][(/\ last'.via \in {"handle", "listing"}
      /\ last'.requests # <<>>
      /\ ClientResult(last').kind = "throw")
     => /\ last'.result = ClientResult(last')
        /\ Len(last'.requests) = 1
        /\ heap' = heap]_vars

\* unpublish() has failed with an API error on a handle that shows a public
\* url.
C21_Witness ==
  /\ last.via = "handle"
  /\ last.op = "unpublish"
  /\ Threw
  /\ last.result.value.class = "IMGProcessingAPIError"
  /\ heap[last.self].url # Null

\* C22: with calls in flight together on one client, the client's base
\* address and header stay as the constructor made them, every request
\* carries them and is the request of its own call's parameters, and what a
\* finished call returned or threw is made of the response to its own
\* request.
C22_NoPerCallState ==
  /\ clients = <<NewClient(KeyTest).value>>
  /\ \A i \in DOMAIN last :
       LET call == last[i] IN
       /\ call.requests =
            <<[client |-> 1,
               prefixUrl |-> "https://api.img-processing.com/",
               headers |-> [x_api_key |-> KeyTest],
               request |-> ClientRequest(call.op, call.params)]>>
       /\ (call.outcome.kind = "ok_json"
             /\ call.op \in {"getImage", "publish", "unpublish"})
            => call.outcome.body.id = call.params.image_id
       /\ call.pc = "done" =>
            IF call.via = "handle" /\ call.outcome.kind = "ok_json"
              THEN call.result = Return([ref |-> call.self])
              ELSE call.result = ClientResult(call)

\* Two calls have finished in the order opposite to the one they were
\* started in, the first with a handle and the second with a listing.
C22_Witness ==
  /\ Len(last) = 2
  /\ last[1].op = "getImage" /\ last[2].op = "listImages"
  /\ last[1].pc = "done" /\ last[2].pc = "done"
  /\ last[1].turn = 2 /\ last[2].turn = 1
  /\ last[1].result.kind = "return"
  /\ last[1].result.value.id = ImageId(2)
  /\ last[2].result.kind = "return"
  /\ Len(last[2].result.value.data) = 2

\* C23: delete() of a handle makes one DELETE request for the handle's own
\* id through the handle's client; when the request succeeds the call
\* resolves with no value; and, whatever the outcome, no handle has changed,
\* so that the handle can be called again.
C23_DeleteIsRemoteOnly ==
  [][(last'.via = "handle" /\ last'.op = "delete")
     => LET self == last'.self IN
        /\ last'.requests =
             <<Wire(heap[self].client,
                    [method |-> "DELETE",
                     path |-> [id |-> heap[self].id, op |-> ""],
                     body |-> <<>>])>>
        /\ last'.outcome.kind = "ok_json" => last'.result = Return(Null)
        /\ heap' = heap
        /\ self \in Handle']_vars

\* The third image has been published through its handle and then deleted
\* through it: the call returned nothing and the handle still shows the
\* public url.
C23_Witness ==
  /\ last.via = "handle"
  /\ last.op = "delete"
  /\ last.result = Return(Null)
  /\ heap[last.self].id = ImageId(3)
  /\ heap[last.self].url = PublicUrl(3)

\* C24: a call that fails otherwise than with an IMGProcessingAPIError has
\* written the failure to the log once and throws the generic error; a call
\* that returns, or throws an IMGProcessingAPIError, has written nothing.
\* The first part fails: a non-2xx response whose body does not decode to an
\* object makes the catch block itself throw, with nothing logged.
C24_UnexpectedLoggedOnce ==
  Finished =>
    /\ (Threw /\ last.result.value.class # "IMGProcessingAPIError")
         => /\ last.result.logged = 1
            /\ last.result.value = UnexpectedError
    /\ (Returned \/ last.result.value.class = "IMGProcessingAPIError")
         => last.result.logged = 0

\* C25: goToPage of a link under the service's host, called by the caller
\* or by next()/previous(), makes one GET whose URL is the link without the
\* host at its head and otherwise as it was, and returns a new listing of
\* the same client with the data and the links of the response.
C25_GoToPageStripsHost ==
  (/\ last.op \in {"goToPage", "next", "previous"}
   /\ last.requests # <<>>
   /\ last.params.page.host = ApiHost)
  => /\ Len(last.requests) = 1
     /\ last.requests[1].request =
          [method |-> "GET", path |-> [id |-> Null, op |-> ""],
           body |-> Pick(last.params.page, {"take", "from", "more"})]
     /\ Returned =>
          LET new == heap[last.result.value.ref] IN
          /\ last.result.value.ref = Len(heap)
          /\ new.client = last.client
          /\ new.data = last.outcome.body.data
          /\ new.links = last.outcome.body.links

\* The second client has gone to a link in whose query the host stands
\* again, and has a listing of one image for it.
C25_Witness ==
  /\ last.op = "goToPage"
  /\ last.client = 2
  /\ "more" \in DOMAIN last.params.page
  /\ last.params.page.host = ApiHost
  /\ last.requests[1].request.body.more = <<"&back=", ApiHost>>
  /\ Returned
  /\ Len(heap[last.result.value.ref].data) = 1

\* C26: every field of the parameters a transformation is called with,
\* other than image_id, is in the body of the request with the value given.
\* It fails for the letterbox_color of resize and the background_color of
\* rotate, which the client methods leave out of the body.
C26_EveryFieldSerialized ==
  (Transforming /\ last.requests # <<>>)
    => \A k \in DOMAIN last.params \ {"image_id"} :
         /\ k \in DOMAIN last.requests[1].request.body
         /\ last.requests[1].request.body[k] = last.params[k]

\* What a handle shows of its image.
Attributes(this) == Pick(this, ImmutableFields \cup {"url"})

\* Whether the envelope revision's result `old` of an outcome and the
\* result `new` of the present revision say the same.
SameOutcome(old, new) ==
  IF old.kind = "return" /\ old.value.success
    THEN /\ new.kind = "return"
         /\ old.value.data = Attributes(heap[new.value.ref])
  ELSE IF old.kind = "return"
    THEN /\ new.kind = "throw"
         /\ new.value.class = "IMGProcessingAPIError"
         /\ new.value.fields = old.value.error
  ELSE /\ old = Throw(UnexpectedError, 1)
       /\ new = Throw(UnexpectedError, 1)

\* C27: for every outcome of the request of uploadImage and
\* createImageFromUrl, the envelope revisions and the present revision say
\* the same: success with the same attributes, or a structured error with
\* the same fields, or else the generic error, logged.  It fails for a
\* non-2xx response whose body is null or does not decode, and the first
\* revision's uploadImage logs nothing.
C27_RevisionsAgree ==
  (last.op \in {"uploadImage", "createImageFromUrl"} /\ last.requests # <<>>)
    => /\ SameOutcome(Request_envelope(last.outcome), last.result)
       /\ last.op = "uploadImage"
            => SameOutcome(UploadImage_first(last.outcome), last.result)

\* The calls of publish() and unpublish() on the handle `h` that have
\* finished with success.
Toggled(h) ==
  {i \in DOMAIN last :
     /\ last[i].via = "handle" /\ last[i].self = h
     /\ last[i].pc = "done" /\ last[i].result.kind = "return"}

\* C28: when a publish() and an unpublish() started together on one handle
\* have both finished with success, the handle's url is the url of the
\* response that was taken up last, whichever call was started first, and
\* the handle's other fields are as they were.
C28_LastResponseWins ==
  \A h \in Handle :
    (\E i, j \in Toggled(h) :
       last[i].op = "publish" /\ last[j].op = "unpublish")
    => LET w == CHOOSE i \in Toggled(h) :
                  \A j \in Toggled(h) : last[j].turn <= last[i].turn IN
       /\ heap[h].url = last[w].outcome.body.url
       /\ Pick(heap[h], ImmutableFields) =
            Pick(server[Num(heap[h].id)], ImmutableFields)
       /\ heap[h].client = 1

\* publish() was started before unpublish() and served before it, but its
\* response was taken up after: the handle shows the public url of an image
\* that is private.
C28_Witness ==
  /\ Len(last) = 2
  /\ last[1].op = "publish" /\ last[2].op = "unpublish"
  /\ Toggled(1) = {1, 2}
  /\ last[1].turn = 2 /\ last[2].turn = 1
  /\ heap[1].url = PublicUrl(1)
  /\ server[1].url = Null

\* C29: publish and unpublish, called on the client with an image id or on
\* a handle, leave every other handle as it was, the handles of the same
\* image too: the client method returns a new handle, the handle method
\* writes the url of its own handle only.
C29_OtherHandlesKeepUrl ==
  [][(last'.op \in {"publish", "unpublish"} /\ last' # last)
     => /\ \A h \in DOMAIN heap : h # last'.self => heap'[h] = heap[h]
        /\ (last'.via = "client" /\ last'.result.kind = "return")
             => /\ last'.result.value.ref = Len(heap) + 1
                /\ heap'[Len(heap) + 1].id = last'.params.image_id
        /\ (last'.via = "handle" /\ last'.result.kind = "return")
             => /\ last'.result.value.ref = last'.self
                /\ Len(heap') = Len(heap)]_vars

\* Two handles of the first image after one of them has published it: one
\* shows the public url, the other none.
C29_Witness ==
  /\ last.via = "handle"
  /\ last.op = "publish"
  /\ Returned
  /\ \E h \in Handle :
       /\ h # last.self
       /\ heap[h].id = heap[last.self].id
       /\ heap[h].url = Null
       /\ heap[last.self].url = PublicUrl(1)

\* C30: uploadImage of a path that cannot be read fails without a request:
\* nothing goes to the service, no handle is made, and what is thrown is the
\* file system's error, which is neither an IMGProcessingAPIError nor the
\* generic error, and nothing is logged.
C30_UnreadablePathFailsFirst ==
  [][(/\ last'.op = "uploadImage"
      /\ last'.params.image.kind = "path"
      /\ last'.params.image.path \notin DOMAIN Files)
     => /\ last'.requests = <<>>
        /\ server' = server
        /\ heap' = heap
        /\ last'.result.kind = "throw"
        /\ last'.result.value = [class |-> "Error", code |-> "ENOENT"]
        /\ last'.result.value # UnexpectedError
        /\ last'.result.value.class # "IMGProcessingAPIError"
        /\ last'.result.logged = 0]_vars

\* A second upload, of a path that is not there, has failed with ENOENT
\* after a first one made an image.
C30_Witness ==
  /\ Uploaded
  /\ last.params.image = [kind |-> "path", path |-> "assets/missing.png"]
  /\ "name" \in DOMAIN last.params
  /\ last.requests = <<>>
  /\ last.result.value.code = "ENOENT"
  /\ Len(server) = 1

====
